---------------------------- MODULE Spec2Model ----------------------------
(***************************************************************************)
(* DiviPay: the balance computation and the debt simplification of the     *)
(* expense controller, with the handlers that feed them.                   *)
(*                                                                         *)
(* Money is kept on a fixed grid: one unit is 1/Cent of a cent, so 0.01    *)
(* is Cent units.  The JavaScript numbers of the source are modelled at    *)
(* their decimal value; where a comparison sits exactly on its threshold   *)
(* in decimal (the split check of addExpense), either outcome is taken.    *)
(***************************************************************************)
EXTENDS Integers, Sequences, FiniteSets, TLC

VARIABLES
  \* one run of generateSimplifiedDebts, statement by statement
  balances,   \* the balance records handed to the call (the caller's objects)
  creditors,  \* the creditors array: references to records of `balances`
  debtors,    \* the debtors array: copies with a positive netBalance
  i, j,       \* the two cursors
  debts,      \* the debts array being built
  pc,         \* where the run is: "call", "loop", "returned"
  returned,   \* the debt lists returned so far, one per call
  given       \* the balance records as first handed in (never written)

simplifierVars == <<balances, creditors, debtors, i, j, debts, pc, returned, given>>

VARIABLES
  \* the application: the two collections and the last answer sent
  groups,     \* Group collection: group id -> document
  expenses,   \* Expense collection, in insertion order
  nextId,     \* the next Expense _id
  response,   \* the last response a handler sent
  \* history of a settle-up round trip (not program state)
  tripState,  \* "none", "settling" (a balance response listed debts), "recomputed"
  toSettle,   \* debts of that response not yet handed to markSettlement
  \* history of the markSettlement requests (not program state)
  lastSettle, \* the last request if the last step was one, and how often in a row
  \* handlers running statement by statement, between their awaits
  inflight    \* request number -> the request, where it stands, what it has read

appVars == <<groups, expenses, nextId, response, tripState, toSettle, lastSettle,
             inflight>>

\* ------------------------------------------------------------------ bounds

\* Units per cent (0.01): the resolution of the money grid.
Cent == 3

\* Largest magnitude, in units, of a net balance handed to generateSimplifiedDebts.
MaxBal == 12

\* How many times generateSimplifiedDebts is called in one behaviour.
MaxCalls == 2

\* Largest expense amount of a request, in cents.
MaxCents == 2

\* How many expenses are stored in one behaviour at most.
MaxExpenses == 2

\* The registered users, in the order their records are inserted.
UserOrder == <<"A", "B", "C", "D">>

Users == {UserOrder[k] : k \in 1..Len(UserOrder)}

\* ------------------------------------------------------------- arithmetic

Abs(x) == IF x < 0 THEN -x ELSE x

Min(a, b) == IF a <= b THEN a ELSE b

\* Number(x.toFixed(2)): x rounded to a whole number of cents, half up (x >= 0).
Round2(x) == ((2 * x + Cent) \div (2 * Cent)) * Cent

RECURSIVE SumSeq(_)
SumSeq(s) == IF s = <<>> THEN 0 ELSE Head(s) + SumSeq(Tail(s))

\* A descending sort that puts a later equal entry first.
RECURSIVE InsertDescUnstable(_, _)
InsertDescUnstable(e, s) ==
  IF s = <<>> THEN <<e>>
  ELSE IF Head(s).netBalance > e.netBalance
       THEN <<Head(s)>> \o InsertDescUnstable(e, Tail(s))
  ELSE <<e>> \o s

\* Array.prototype.sort((a, b) => b.netBalance - a.netBalance) on a list of
\* records: descending by netBalance and stable (equal entries keep their order).
RECURSIVE InsertDesc(_, _)
InsertDesc(e, s) ==
  IF s = <<>> THEN <<e>>
  ELSE IF Head(s).netBalance >= e.netBalance THEN <<Head(s)>> \o InsertDesc(e, Tail(s))
  ELSE <<e>> \o s

RECURSIVE SortDesc(_)
SortDesc(s) ==
  IF s = <<>> THEN <<>>
  ELSE InsertDesc(s[Len(s)], SortDesc(SubSeq(s, 1, Len(s) - 1)))

\* ---------------------------------------------- generateSimplifiedDebts

\* The balance records are objects on the heap: `bal` maps a member id to its
\* record.  The creditors array holds the records themselves (references, kept
\* here as member ids), the debtors array holds copies ({...balance, netBalance:
\* Math.abs(...)}), kept here as records of their own.

\* Object.values(balances).forEach: the creditors, in insertion order.
RECURSIVE CreditorsOf(_, _)
CreditorsOf(bal, order) ==
  IF order = <<>> THEN <<>>
  ELSE IF bal[Head(order)].netBalance > Cent
       THEN <<Head(order)>> \o CreditorsOf(bal, Tail(order))
       ELSE CreditorsOf(bal, Tail(order))

\* Object.values(balances).forEach: the debtor copies, in insertion order.
RECURSIVE DebtorsOf(_, _)
DebtorsOf(bal, order) ==
  IF order = <<>> THEN <<>>
  ELSE IF ~(bal[Head(order)].netBalance > Cent) /\ bal[Head(order)].netBalance < -Cent
       THEN <<[userId |-> Head(order), netBalance |-> Abs(bal[Head(order)].netBalance)]>>
            \o DebtorsOf(bal, Tail(order))
       ELSE DebtorsOf(bal, Tail(order))

\* creditors.sort(...): the references reordered by the netBalance of their records.
SortCreditors(bal, cs) ==
  LET recs == [k \in 1..Len(cs) |-> [userId |-> cs[k], netBalance |-> bal[cs[k]].netBalance]]
      sorted == SortDesc(recs)
  IN [k \in 1..Len(cs) |-> sorted[k].userId]

\* The state of one call after the partition and the two sorts (cursors are
\* 1-based here, 0-based in the source).
Separate(bal, order) ==
  [balances  |-> bal,
   creditors |-> SortCreditors(bal, CreditorsOf(bal, order)),
   debtors   |-> SortDesc(DebtorsOf(bal, order)),
   i         |-> 1,
   j         |-> 1,
   debts     |-> <<>>]

\* Math.min(creditor.netBalance, debtor.netBalance), with Math.max in its place.
AmountMax(c, d) == IF c >= d THEN c ELSE d

\* The amount of one step paid in instalments of at most 0.015.
AmountCapped(c, d) == Min(Min(c, d), Cent + 1)

\* Line 655: the amount of one step.
Amount(c, d) == Min(c, d)

\* The pushed entry with from and to exchanged.
DebtEntrySwapped(debtor, creditor, amount) ==
  [from |-> creditor, to |-> debtor, amount |-> Round2(amount)]

\* The pushed entry with the debtor written on both sides.
DebtEntryBothDebtor(debtor, creditor, amount) ==
  [from |-> debtor, to |-> debtor, amount |-> Round2(amount)]

\* The pushed entry with the amount left unrounded.
DebtEntryUnrounded(debtor, creditor, amount) ==
  [from |-> debtor, to |-> creditor, amount |-> amount]

\* Lines 658-668: the entry pushed on debts (names left out: they follow the ids).
DebtEntry(debtor, creditor, amount) ==
  [from |-> debtor, to |-> creditor, amount |-> Round2(amount)]

\* while (i < creditors.length && j < debtors.length)
LoopCond(st) == st.i <= Len(st.creditors) /\ st.j <= Len(st.debtors)

\* One pass through the body of the while loop.
LoopBody(st) ==
  LET creditor == st.creditors[st.i]
      debtor   == st.debtors[st.j]
      amount   == Amount(st.balances[creditor].netBalance, debtor.netBalance)
      credLeft == st.balances[creditor].netBalance - amount
      debtLeft == debtor.netBalance - amount
  IN [balances  |-> [st.balances EXCEPT ![creditor].netBalance = credLeft],
      creditors |-> st.creditors,
      debtors   |-> [st.debtors EXCEPT ![st.j].netBalance = debtLeft],
      i         |-> IF credLeft < Cent THEN st.i + 1 ELSE st.i,
      j         |-> IF debtLeft < Cent THEN st.j + 1 ELSE st.j,
      debts     |-> IF amount > Cent
                    THEN Append(st.debts, DebtEntry(debtor.userId, creditor, amount))
                    ELSE st.debts]

RECURSIVE RunLoop(_)
RunLoop(st) == IF LoopCond(st) THEN RunLoop(LoopBody(st)) ELSE st

\* The whole call: the final state, whose .debts is the returned list and whose
\* .balances are the caller's records as the call leaves them.
generateSimplifiedDebts(bal, order) == RunLoop(Separate(bal, order))

\* ------------------------ generateSimplifiedDebts run statement by statement

Frame == [balances |-> balances, creditors |-> creditors, debtors |-> debtors,
          i |-> i, j |-> j, debts |-> debts]

SetFrame(st) ==
  /\ balances' = st.balances
  /\ creditors' = st.creditors
  /\ debtors' = st.debtors
  /\ i' = st.i
  /\ j' = st.j
  /\ debts' = st.debts

\* A balance record as calculateGroupBalance builds it, with net balance nb.
BalanceRecord(u, nb) ==
  [userId |-> u,
   totalPaid |-> IF nb > 0 THEN nb ELSE 0,
   totalOwes |-> IF nb < 0 THEN -nb ELSE 0,
   netBalance |-> nb]

InitSimplifier ==
  /\ groups = <<>>
  /\ expenses = <<>>
  /\ nextId = 1
  /\ response = [op |-> "none", status |-> 0, group |-> "none", balances |-> <<>>,
                 debts |-> <<>>]
  /\ tripState = "none"
  /\ toSettle = <<>>
  /\ lastSettle = [req |-> <<>>, times |-> 0]
  /\ inflight = <<>>
  /\ \E nb \in [Users -> (-MaxBal)..MaxBal] :
       balances = [u \in Users |-> BalanceRecord(u, nb[u])]
  /\ given = balances
  /\ creditors = <<>>
  /\ debtors = <<>>
  /\ i = 1
  /\ j = 1
  /\ debts = <<>>
  /\ pc = "call"
  /\ returned = <<>>

\* Lines 632-647: the partition and the two sorts.
SeparateAndSort ==
  /\ pc = "call"
  /\ SetFrame(Separate(balances, UserOrder))
  /\ pc' = "loop"
  /\ UNCHANGED <<returned, given>>
  /\ UNCHANGED appVars

\* Lines 651-676: one iteration of the while loop.
LoopIteration ==
  /\ pc = "loop"
  /\ LoopCond(Frame)
  /\ SetFrame(LoopBody(Frame))
  /\ UNCHANGED <<pc, returned, given>>
  /\ UNCHANGED appVars

\* Line 678: return debts.
Return ==
  /\ pc = "loop"
  /\ ~LoopCond(Frame)
  /\ returned' = Append(returned, debts)
  /\ pc' = "returned"
  /\ UNCHANGED <<balances, creditors, debtors, i, j, debts, given>>
  /\ UNCHANGED appVars

\* The caller calls again with the very records it passed before.
CallAgainSameRecords ==
  /\ pc = "returned"
  /\ Len(returned) < MaxCalls
  /\ creditors' = <<>>
  /\ debtors' = <<>>
  /\ i' = 1
  /\ j' = 1
  /\ debts' = <<>>
  /\ pc' = "call"
  /\ UNCHANGED <<balances, returned, given>>
  /\ UNCHANGED appVars

\* The caller calls again with fresh records holding the values first given.
CallAgainFreshRecords ==
  /\ pc = "returned"
  /\ Len(returned) < MaxCalls
  /\ balances' = given
  /\ creditors' = <<>>
  /\ debtors' = <<>>
  /\ i' = 1
  /\ j' = 1
  /\ debts' = <<>>
  /\ pc' = "call"
  /\ UNCHANGED <<returned, given>>
  /\ UNCHANGED appVars

NextSimplifier ==
  \/ SeparateAndSort
  \/ LoopIteration
  \/ Return
  \/ CallAgainSameRecords
  \/ CallAgainFreshRecords


\* ------------------------------------------------------- the application

GroupIds == {"g1"}

\* The accounts that send requests to the application.
Accounts == {"A", "B", "C"}

\* Expense.js, category.enum.
CategoryEnum == {"Food", "Transportation", "Entertainment", "Shopping", "Bills",
                 "Travel", "Other"}

\* The amounts a request may carry: whole cents up to MaxCents.
Amounts == {k * Cent : k \in 1..MaxCents}

\* A response without balances: the operation and the HTTP status.
Reply(op, status) ==
  [op |-> op, status |-> status, group |-> "none", balances |-> <<>>, debts |-> <<>>]

Range(s) == {s[k] : k \in 1..Len(s)}

MemberUsers(g) == {groups[g].members[k].user : k \in 1..Len(groups[g].members)}

\* The query without the member: Group.findOne({_id: g, isActive: true}).
FindsGroupOfAnyone(g, u) ==
  /\ g \in DOMAIN groups
  /\ groups[g].isActive

\* Group.findOne({_id: g, 'members.user': u, isActive: true}) finds a document.
FindsGroupOf(g, u) ==
  /\ g \in DOMAIN groups
  /\ groups[g].isActive
  /\ u \in MemberUsers(g)

\* The keys of the balances object in insertion order: the members' ids, a
\* repeated id keeping its first place.
RECURSIVE InsertionOrder(_, _)
InsertionOrder(members, seen) ==
  IF members = <<>> THEN <<>>
  ELSE IF Head(members).user \in seen THEN InsertionOrder(Tail(members), seen)
  ELSE <<Head(members).user>> \o InsertionOrder(Tail(members), seen \cup {Head(members).user})

\* The records started with 0.01 already paid.
InitBalancesOpening(order) ==
  [u \in Range(order) |-> [userId |-> u, totalPaid |-> Cent, totalOwes |-> 0, netBalance |-> 0]]

\* Lines 275-285: a zeroed record for every member.
InitBalances(order) ==
  [u \in Range(order) |-> [userId |-> u, totalPaid |-> 0, totalOwes |-> 0, netBalance |-> 0]]

\* Lines 297-302: each split's amount goes to its member's totalOwes, if the
\* member has a record.
RECURSIVE AddSplits(_, _)
AddSplits(bal, splits) ==
  IF splits = <<>> THEN bal
  ELSE LET sp == Head(splits)
           b1 == IF sp.user \in DOMAIN bal
                 THEN [bal EXCEPT ![sp.user].totalOwes = @ + sp.amount]
                 ELSE bal
       IN AddSplits(b1, Tail(splits))

\* The payer's totalPaid left as it is.
AddPaidForgotten(bal, e) == bal

\* Lines 289-294: the amount goes to the payer's totalPaid, if the payer has a record.
AddPaid(bal, e) ==
  IF e.paidBy \in DOMAIN bal
  THEN [bal EXCEPT ![e.paidBy].totalPaid = @ + e.amount]
  ELSE bal

\* Lines 288-303: expenses.forEach.
RECURSIVE AddExpenses(_, _)
AddExpenses(bal, es) ==
  IF es = <<>> THEN bal
  ELSE AddExpenses(AddSplits(AddPaid(bal, Head(es)), Head(es).splitBetween), Tail(es))

\* Lines 306-309: netBalance = totalPaid - totalOwes on every record.
NetBalances(bal) ==
  [u \in DOMAIN bal |-> [bal[u] EXCEPT !.netBalance = bal[u].totalPaid - bal[u].totalOwes]]

\* Lines 272-309: the balances object handed to generateSimplifiedDebts.
ComputeBalances(es, order) == NetBalances(AddExpenses(InitBalances(order), es))

\* Expense.find({group: g, settled: false}).
UnsettledOf(g) == SelectSeq(expenses, LAMBDA e : e.group = g /\ e.settled = FALSE)

\* The validation with the category left unchecked.
SchemaValidAnyCategory(e) ==
  /\ e.amount >= Cent
  /\ \A k \in 1..Len(e.splitBetween) : e.splitBetween[k].amount >= 0

\* Mongoose validation of an Expense document on save (Expense.js).
SchemaValid(e) ==
  /\ e.amount >= Cent
  /\ \A k \in 1..Len(e.splitBetween) : e.splitBetween[k].amount >= 0
  /\ e.category \in CategoryEnum

\* Number((amount / n).toFixed(2)), n >= 1.
EqualShare(amount, n) == ((2 * amount + n * Cent) \div (2 * n * Cent)) * Cent

RECURSIVE SumSplits(_)
SumSplits(splits) ==
  IF splits = <<>> THEN 0 ELSE Head(splits).amount + SumSplits(Tail(splits))

\* Lines 55-56: Math.abs(totalSplitAmount - amount) > 0.01.  Off by more than
\* 0.01 it is true, by less it is false; off by exactly 0.01 in decimal, the
\* binary doubles decide (100 - 99.99 > 0.01, yet 100 - (0.01 + 99.98) < 0.01):
\* `above` says whether the computed difference came out above 0.01.
SplitMismatch(total, amount, above) ==
  \/ Abs(total - amount) > Cent
  \/ Abs(total - amount) = Cent /\ above

NoTrip == /\ tripState' = "none"
          /\ toSettle' = <<>>

NoSettle == lastSettle' = [req |-> <<>>, times |-> 0]

InitApp ==
  /\ groups = <<>>
  /\ expenses = <<>>
  /\ nextId = 1
  /\ response = Reply("none", 0)
  /\ tripState = "none"
  /\ toSettle = <<>>
  /\ lastSettle = [req |-> <<>>, times |-> 0]
  /\ inflight = <<>>

\* An entry of the members of a createGroup request that names no role.
MemberData(u) == [user |-> u, role |-> ""]

\* The requests createGroup is sent: the creator and the members to add.
CreateChoices ==
  {<<"A", <<MemberData("B")>>>>,
   <<"A", <<MemberData("B"), MemberData("C")>>>>,
   <<"A", <<MemberData("A"), MemberData("B")>>>>}

\* POST /api/groups
createGroup(userId, additional) ==
  /\ \E g \in GroupIds \ DOMAIN groups :
       groups' = (g :> [members |-> <<[user |-> userId, role |-> "admin"]>>
                                     \o [k \in 1..Len(additional) |->
                                           [user |-> additional[k].user,
                                            role |-> IF additional[k].role = ""
                                                     THEN "member"
                                                     ELSE additional[k].role]],
                        createdBy |-> userId,
                        totalExpenses |-> 0,
                        isActive |-> TRUE]) @@ groups
  /\ response' = Reply("createGroup", 201)
  /\ NoTrip
  /\ NoSettle
  /\ UNCHANGED <<expenses, nextId>>

\* group.members.find(member => member.user.toString() === userId): the place
\* of the first entry of the user, 0 when there is none.
FindMember(g, userId) ==
  IF \E k \in 1..Len(groups[g].members) : groups[g].members[k].user = userId
  THEN CHOOSE k \in 1..Len(groups[g].members) :
         /\ groups[g].members[k].user = userId
         /\ \A l \in 1..(k - 1) : groups[g].members[l].user # userId
  ELSE 0

\* removeMember without the check for the creator as target.
removeMemberAnyTarget(userId, g, memberId) ==
  /\ NoTrip
  /\ NoSettle
  /\ UNCHANGED <<expenses, nextId>>
  /\ IF g \notin DOMAIN groups
     THEN /\ response' = Reply("removeMember", 404)
          /\ UNCHANGED groups
     ELSE IF \/ FindMember(g, userId) = 0
             \/ groups[g].members[FindMember(g, userId)].role # "admin"
     THEN /\ response' = Reply("removeMember", 403)
          /\ UNCHANGED groups
     ELSE /\ groups' = [groups EXCEPT ![g].members =
                          SelectSeq(@, LAMBDA m : m.user # memberId)]
          /\ response' = Reply("removeMember", 200)

\* DELETE /api/groups/:groupId/members/:memberId
removeMember(userId, g, memberId) ==
  /\ NoTrip
  /\ NoSettle
  /\ UNCHANGED <<expenses, nextId>>
  /\ IF g \notin DOMAIN groups
     THEN /\ response' = Reply("removeMember", 404)
          /\ UNCHANGED groups
     ELSE IF \/ FindMember(g, userId) = 0
             \/ groups[g].members[FindMember(g, userId)].role # "admin"
     THEN /\ response' = Reply("removeMember", 403)
          /\ UNCHANGED groups
     ELSE IF memberId = groups[g].createdBy
     THEN /\ response' = Reply("removeMember", 400)
          /\ UNCHANGED groups
     ELSE /\ groups' = [groups EXCEPT ![g].members =
                          SelectSeq(@, LAMBDA m : m.user # memberId)]
          /\ response' = Reply("removeMember", 200)

\* The splitBetween lists a request may carry for an amount: none (<<>>, the
\* equal split), or one entry carrying the amount, the amount less 0.01, or less
\* than that.
SplitChoices(amount) ==
  {<<>>}
  \cup {<<[user |-> u, amount |-> amount]>> : u \in Accounts}
  \cup {<<[user |-> "B", amount |-> amount - Cent]>>}
  \cup {<<[user |-> "A", amount |-> amount - Cent - 1]>>}

\* POST /api/expenses (validateExpense, then addExpense)
addExpense(paidBy, g, amount, splitBetween) ==
  /\ nextId <= MaxExpenses
  /\ NoTrip
  /\ NoSettle
  /\ LET order == InsertionOrder(groups[g].members, {})
         final == IF Len(splitBetween) > 0
                  THEN splitBetween
                  ELSE [k \in 1..Len(groups[g].members) |->
                          [user |-> groups[g].members[k].user,
                           amount |-> EqualShare(amount, Len(groups[g].members))]]
         expense == [id |-> nextId, amount |-> amount, paidBy |-> paidBy, group |-> g,
                     splitBetween |-> final, category |-> "Other", settled |-> FALSE]
     IN IF amount < Cent
        THEN /\ response' = Reply("addExpense", 400)
             /\ UNCHANGED <<groups, expenses, nextId>>
        ELSE IF ~FindsGroupOf(g, paidBy)
        THEN /\ response' = Reply("addExpense", 404)
             /\ UNCHANGED <<groups, expenses, nextId>>
        ELSE IF \E k \in 1..Len(splitBetween) : splitBetween[k].user \notin Range(order)
        THEN /\ response' = Reply("addExpense", 400)
             /\ UNCHANGED <<groups, expenses, nextId>>
        ELSE \E above \in BOOLEAN :
               IF SplitMismatch(SumSplits(final), amount, above) \/ ~SchemaValid(expense)
               THEN /\ response' = Reply("addExpense", 400)
                    /\ UNCHANGED <<groups, expenses, nextId>>
               ELSE /\ expenses' = Append(expenses, expense)
                    /\ nextId' = nextId + 1
                    /\ groups' = [groups EXCEPT ![g].totalExpenses = @ + amount]
                    /\ response' = Reply("addExpense", 201)

\* POST /api/expenses/settle
markSettlement(userId, fromUserId, toUserId, amount, g) ==
  /\ LET settlement == [id |-> nextId, amount |-> amount, paidBy |-> fromUserId,
                        group |-> g,
                        splitBetween |-> <<[user |-> toUserId, amount |-> amount]>>,
                        category |-> "Settlement", settled |-> TRUE]
     IN IF userId # fromUserId /\ userId # toUserId
        THEN /\ response' = Reply("markSettlement", 403)
             /\ UNCHANGED <<expenses, nextId>>
        ELSE IF ~FindsGroupOf(g, userId)
        THEN /\ response' = Reply("markSettlement", 404)
             /\ UNCHANGED <<expenses, nextId>>
        ELSE IF ~SchemaValid(settlement)
        THEN /\ response' = Reply("markSettlement", 500)
             /\ UNCHANGED <<expenses, nextId>>
        ELSE /\ expenses' = Append(expenses, settlement)
             /\ nextId' = nextId + 1
             /\ response' = Reply("markSettlement", 200)
  /\ IF /\ tripState = "settling"
        /\ toSettle # <<>>
        /\ Head(toSettle) = [from |-> fromUserId, to |-> toUserId, amount |-> amount]
        /\ userId = fromUserId
     THEN /\ toSettle' = Tail(toSettle)
          /\ UNCHANGED tripState
     ELSE NoTrip
  /\ lastSettle' =
       [req   |-> <<fromUserId, toUserId, amount, g>>,
        times |-> IF lastSettle.req = <<fromUserId, toUserId, amount, g>>
                  THEN Min(lastSettle.times + 1, MaxCalls)
                  ELSE 1]
  /\ UNCHANGED groups

\* GET /api/expenses/balance/:groupId
calculateGroupBalance(userId, g) ==
  /\ UNCHANGED <<groups, expenses, nextId>>
  /\ NoSettle
  /\ IF ~FindsGroupOf(g, userId)
     THEN /\ response' = Reply("calculateGroupBalance", 404)
          /\ NoTrip
     ELSE LET order == InsertionOrder(groups[g].members, {})
              bal   == ComputeBalances(UnsettledOf(g), order)
              done  == generateSimplifiedDebts(bal, order)
          IN /\ response' = [op |-> "calculateGroupBalance", status |-> 200,
                             group |-> g,
                             balances |-> [k \in 1..Len(order) |-> done.balances[order[k]]],
                             debts |-> done.debts]
             /\ IF tripState = "settling" /\ toSettle = <<>>
                THEN /\ tripState' = "recomputed"
                     /\ toSettle' = <<>>
                ELSE IF done.debts # <<>>
                THEN /\ tripState' = "settling"
                     /\ toSettle' = done.debts
                ELSE NoTrip

\* Expense.findById(expenseId): the place of the document, 0 when there is none.
PlaceOfExpense(expenseId) ==
  IF \E k \in 1..Len(expenses) : expenses[k].id = expenseId
  THEN CHOOSE k \in 1..Len(expenses) : expenses[k].id = expenseId
  ELSE 0

\* The amount and category an update request may carry (0 and "": none given):
\* an amount of addExpense, one below 0.01, or a category outside the enum.
UpdateChoices ==
  {<<a, "">> : a \in Amounts \cup {Cent - 1}} \cup {<<0, "Settlement">>}

\* PUT /api/expenses/:expenseId (no validation middleware on the route)
updateExpense(userId, expenseId, amount, category) ==
  /\ NoTrip
  /\ NoSettle
  /\ UNCHANGED <<groups, nextId>>
  /\ LET k == PlaceOfExpense(expenseId)
     IN IF k = 0
        THEN /\ response' = Reply("updateExpense", 404)
             /\ UNCHANGED expenses
        ELSE IF expenses[k].paidBy # userId
        THEN /\ response' = Reply("updateExpense", 403)
             /\ UNCHANGED expenses
        ELSE LET updated == [expenses[k] EXCEPT
                               !.amount = IF amount # 0 THEN amount ELSE @,
                               !.category = IF category # "" THEN category ELSE @]
             IN IF ~SchemaValid(updated)
                THEN /\ response' = Reply("updateExpense", 500)
                     /\ UNCHANGED expenses
                ELSE /\ expenses' = [expenses EXCEPT ![k] = updated]
                     /\ response' = Reply("updateExpense", 200)

\* DELETE /api/expenses/:expenseId
deleteExpense(userId, expenseId) ==
  /\ NoTrip
  /\ NoSettle
  /\ UNCHANGED nextId
  /\ LET k == PlaceOfExpense(expenseId)
     IN IF k = 0
        THEN /\ response' = Reply("deleteExpense", 404)
             /\ UNCHANGED <<groups, expenses>>
        ELSE IF expenses[k].paidBy # userId
        THEN /\ response' = Reply("deleteExpense", 403)
             /\ UNCHANGED <<groups, expenses>>
        ELSE /\ groups' = IF expenses[k].group \in DOMAIN groups
                          THEN [groups EXCEPT ![expenses[k].group].totalExpenses =
                                  @ - expenses[k].amount]
                          ELSE groups
             /\ expenses' = SelectSeq(expenses, LAMBDA e : e.id # expenseId)
             /\ response' = Reply("deleteExpense", 200)

\* The settlements a request may name: the debts of the last response, and one
\* of 0.01 from B to A.
SettleChoices ==
  Range(response.debts) \cup {[from |-> "B", to |-> "A", amount |-> Cent]}

createGroupRequest ==
  /\ \E c \in CreateChoices : createGroup(c[1], c[2])
  /\ UNCHANGED <<simplifierVars, inflight>>

removeMemberRequest ==
  /\ \E u \in {"A", "B"}, g \in GroupIds, m \in Accounts : removeMember(u, g, m)
  /\ UNCHANGED <<simplifierVars, inflight>>

addExpenseRequest ==
  /\ \E u \in Accounts, g \in DOMAIN groups :
       \/ \E a \in Amounts : \E sp \in SplitChoices(a) : addExpense(u, g, a, sp)
       \/ addExpense(u, g, Cent - 1, <<>>)
  /\ UNCHANGED <<simplifierVars, inflight>>

markSettlementRequest ==
  /\ \E u \in Accounts, g \in DOMAIN groups : \E d \in SettleChoices :
       markSettlement(u, d.from, d.to, d.amount, g)
  /\ UNCHANGED <<simplifierVars, inflight>>

calculateGroupBalanceRequest ==
  /\ \E u \in Accounts, g \in GroupIds : calculateGroupBalance(u, g)
  /\ UNCHANGED <<simplifierVars, inflight>>

updateExpenseRequest ==
  /\ \E u \in Accounts, id \in 1..MaxExpenses :
       \E c \in UpdateChoices : updateExpense(u, id, c[1], c[2])
  /\ UNCHANGED <<simplifierVars, inflight>>

deleteExpenseRequest ==
  /\ \E u \in Accounts, id \in 1..MaxExpenses : deleteExpense(u, id)
  /\ UNCHANGED <<simplifierVars, inflight>>

\* ----------------------------------------------------- the specifications

vars == <<balances, creditors, debtors, i, j, debts, pc, returned, given,
          groups, expenses, nextId, response, tripState, toSettle, lastSettle,
          inflight>>

\* The simplifier alone, on every balance set of the bounds.
SpecSimplifier == InitSimplifier /\ [][NextSimplifier]_vars

Init ==
  /\ InitApp
  /\ balances = <<>>
  /\ given = <<>>
  /\ creditors = <<>>
  /\ debtors = <<>>
  /\ i = 1
  /\ j = 1
  /\ debts = <<>>
  /\ pc = "idle"
  /\ returned = <<>>

Next ==
  \/ createGroupRequest
  \/ removeMemberRequest
  \/ addExpenseRequest
  \/ markSettlementRequest
  \/ calculateGroupBalanceRequest

\* The application: its handlers, each one whole.
Spec == Init /\ [][Next]_vars

\* The handlers that write the Expense collection, on the groups createGroup makes.
NextExpenses ==
  \/ createGroupRequest
  \/ addExpenseRequest
  \/ updateExpenseRequest
  \/ deleteExpenseRequest
  \/ markSettlementRequest

SpecExpenses == Init /\ [][NextExpenses]_vars

\* ------------------------------------------------- claims on the simplifier

RECURSIVE SumNet(_, _)
SumNet(bal, order) ==
  IF order = <<>> THEN 0 ELSE bal[Head(order)].netBalance + SumNet(bal, Tail(order))

ZeroSum(bal) == SumNet(bal, UserOrder) = 0

RECURSIVE PaidBy(_, _)
PaidBy(u, ds) ==
  IF ds = <<>> THEN 0
  ELSE (IF Head(ds).from = u THEN Head(ds).amount ELSE 0) + PaidBy(u, Tail(ds))

RECURSIVE ReceivedBy(_, _)
ReceivedBy(u, ds) ==
  IF ds = <<>> THEN 0
  ELSE (IF Head(ds).to = u THEN Head(ds).amount ELSE 0) + ReceivedBy(u, Tail(ds))

\* The net balance of u once every debt of ds has been paid.
AfterPayments(bal, ds, u) == bal[u].netBalance + PaidBy(u, ds) - ReceivedBy(u, ds)

FirstCallReturned == pc = "returned" /\ Len(returned) = 1

BothExhausted == i = Len(creditors) + 1 /\ j = Len(debtors) + 1

\* C1 as stated: for zero-sum balances, paying every returned debt leaves every
\* member's net balance at exactly zero.
C1_PaymentsZeroEveryBalance ==
  (FirstCallReturned /\ ZeroSum(given)) =>
    \A u \in Users : AfterPayments(given, returned[1], u) = 0

\* C1 amended: for zero-sum balances, paying every returned debt leaves every
\* member's net balance within 0.01 x (number of members - 1) of zero.
C1_PaymentsLeaveWithinTolerance ==
  (FirstCallReturned /\ ZeroSum(given)) =>
    \A u \in Users :
      Abs(AfterPayments(given, returned[1], u)) <= Cent * (Cardinality(Users) - 1)

\* C1 witness: a zero-sum input with two debts returned, one member left off zero.
C1_Witness ==
  /\ FirstCallReturned
  /\ ZeroSum(given)
  /\ Len(returned[1]) >= 2
  /\ \E u \in Users : AfterPayments(given, returned[1], u) # 0

\* C5: a call leaves every balance record it was handed as it was.
C5_CallLeavesRecordsUnchanged ==
  FirstCallReturned => balances = given

\* C6: two calls with the same input, the second possibly on the very records of
\* the first, return the same debt list.
C6_SecondCallReturnsSameList ==
  Len(returned) = 2 => returned[2] = returned[1]

WholeCentsNoneOfOneCent(bal) ==
  \A u \in Users :
    /\ bal[u].netBalance % Cent = 0
    /\ Abs(bal[u].netBalance) # Cent

C8_NoListFromUnevenWalk ==
  pc = "returned" => BothExhausted

\* C10: no debt, built or returned, has the same member as from and as to.
C10_NoSelfDebt ==
  /\ \A k \in 1..Len(debts) : debts[k].from # debts[k].to
  /\ \A n \in 1..Len(returned) : \A k \in 1..Len(returned[n]) :
       returned[n][k].from # returned[n][k].to

\* C10 witness: a call that returned two debts.
C10_Witness == pc = "returned" /\ Len(debts) >= 2

\* ------------------------------------------------ claims on the application

BalanceAnswered == response.op = "calculateGroupBalance" /\ response.status = 200

\* The balances of group g as lines 272-309 compute them from the collections.
ComputedBalances(g) ==
  ComputeBalances(UnsettledOf(g), InsertionOrder(groups[g].members, {}))

ComputedNetSum(g) ==
  SumNet(ComputedBalances(g), InsertionOrder(groups[g].members, {}))

\* Every in-scope expense of g has splits within 0.01 of its amount.
AllWithinTolerance(g) ==
  \A k \in 1..Len(UnsettledOf(g)) :
    Abs(SumSplits(UnsettledOf(g)[k].splitBetween) - UnsettledOf(g)[k].amount) <= Cent

\* Every payer and split member of an in-scope expense of g is a member of g.
AllAreMembers(g) ==
  \A k \in 1..Len(UnsettledOf(g)) :
    /\ UnsettledOf(g)[k].paidBy \in MemberUsers(g)
    /\ \A n \in 1..Len(UnsettledOf(g)[k].splitBetween) :
         UnsettledOf(g)[k].splitBetween[n].user \in MemberUsers(g)

\* C2: once every debt of a balance response has been handed to markSettlement by
\* its debtor and the balances are computed again, every net balance is zero and
\* the debt list is empty.
C2_SettledDebtsRecomputeToZero ==
  (tripState = "recomputed" /\ BalanceAnswered) =>
    /\ \A u \in MemberUsers(response.group) :
         ComputedBalances(response.group)[u].netBalance = 0
    /\ response.debts = <<>>

\* C3 as stated: with accepted expenses whose payers and split members are all
\* members, the computed net balances sum to zero within 0.01, however many
\* expenses there are.
C3_NetBalancesSumToZero ==
  (BalanceAnswered /\ AllWithinTolerance(response.group) /\ AllAreMembers(response.group)) =>
    Abs(ComputedNetSum(response.group)) <= Cent

\* C3 amended: with accepted expenses whose payers and split members are all
\* members, the computed net balances sum to zero within 0.01 x (number of
\* expenses in scope).
C3_NetBalancesSumWithinExpenseCount ==
  (BalanceAnswered /\ AllWithinTolerance(response.group) /\ AllAreMembers(response.group)) =>
    Abs(ComputedNetSum(response.group)) <= Cent * Len(UnsettledOf(response.group))

\* C3 witness: two accepted expenses among members whose balances sum to 0.02 off zero.
C3_Witness ==
  /\ BalanceAnswered
  /\ AllWithinTolerance(response.group)
  /\ AllAreMembers(response.group)
  /\ Len(UnsettledOf(response.group)) = 2
  /\ Abs(ComputedNetSum(response.group)) = 2 * Cent

\* C4: every record of a balance response has netBalance = totalPaid - totalOwes.
C4_ReturnedNetIsPaidMinusOwes ==
  BalanceAnswered =>
    \A k \in 1..Len(response.balances) :
      response.balances[k].netBalance =
        response.balances[k].totalPaid - response.balances[k].totalOwes

\* C9: the balance computation answers with balances only when every payer and
\* split member of the expenses in scope is a member of the group.
C9_NoBalancesWithNonMember ==
  BalanceAnswered => AllAreMembers(response.group)

\* ------------------------------------- more claims on the simplifier

\* How many members have a net balance other than zero.
NonZeroMembers(bal) == Cardinality({u \in Users : bal[u].netBalance # 0})

\* C11 as stated: for every input the number of debts returned is at most the
\* number of members with a non-zero net balance, minus 1.
C11_DebtCountBelowNonZeroMembers ==
  FirstCallReturned => Len(returned[1]) <= NonZeroMembers(given) - 1

\* C11 amended: when some member has a non-zero net balance the number of debts
\* returned is at most the number of such members minus 1; when none has, no
\* debt is returned.
C11_DebtCountBelowNonZeroMembersIfAny ==
  FirstCallReturned =>
    IF NonZeroMembers(given) >= 1
    THEN Len(returned[1]) <= NonZeroMembers(given) - 1
    ELSE returned[1] = <<>>

\* C11 witness: three members off zero and two debts returned (the bound is met).
C11_Witness ==
  /\ FirstCallReturned
  /\ NonZeroMembers(given) = 3
  /\ Len(returned[1]) = 2

\* C17 as stated: every debt returned has amount > 0.01, a from member whose input
\* netBalance was < -0.01 and a to member whose input netBalance was > 0.01 (so a
\* member within 0.01 of zero is in no debt).
C17_DebtsAboveOneCentBetweenDebtorAndCreditor ==
  FirstCallReturned =>
    \A k \in 1..Len(returned[1]) :
      /\ returned[1][k].amount > Cent
      /\ given[returned[1][k].from].netBalance < -Cent
      /\ given[returned[1][k].to].netBalance > Cent

\* C17 amended: every debt returned has an amount of a whole number of cents that
\* is >= 0.01, a from member whose input netBalance was < -0.01 and a to member
\* whose input netBalance was > 0.01.
C17_DebtsAtLeastOneCentBetweenDebtorAndCreditor ==
  FirstCallReturned =>
    \A k \in 1..Len(returned[1]) :
      /\ returned[1][k].amount >= Cent
      /\ returned[1][k].amount % Cent = 0
      /\ given[returned[1][k].from].netBalance < -Cent
      /\ given[returned[1][k].to].netBalance > Cent

\* C17 witness: a debt of exactly 0.01 returned, and a member within 0.01 of zero
\* but not at zero.
C17_Witness ==
  /\ FirstCallReturned
  /\ \E k \in 1..Len(returned[1]) : returned[1][k].amount = Cent
  /\ \E u \in Users : given[u].netBalance # 0 /\ Abs(given[u].netBalance) <= Cent

\* ---------------------------- generateSimplifiedDebts on round amounts

\* d whole currency units, in units of the grid.
Dollars(d) == d * 100 * Cent

\* Net balances of round amounts, equal ones among them.
ScenarioBalances == {Dollars(-40), Dollars(-30), 0, Dollars(30), Dollars(50), Dollars(60)}

InitScenarios ==
  /\ groups = <<>>
  /\ expenses = <<>>
  /\ nextId = 1
  /\ response = [op |-> "none", status |-> 0, group |-> "none", balances |-> <<>>,
                 debts |-> <<>>]
  /\ tripState = "none"
  /\ toSettle = <<>>
  /\ lastSettle = [req |-> <<>>, times |-> 0]
  /\ inflight = <<>>
  /\ \E nb \in [Users -> ScenarioBalances] :
       balances = [u \in Users |-> BalanceRecord(u, nb[u])]
  /\ given = balances
  /\ creditors = <<>>
  /\ debtors = <<>>
  /\ i = 1
  /\ j = 1
  /\ debts = <<>>
  /\ pc = "call"
  /\ returned = <<>>

SpecScenarios == InitScenarios /\ [][NextSimplifier]_vars

\* Where member u stands in the order of the records.
PlaceOf(u) == CHOOSE k \in 1..Len(UserOrder) : UserOrder[k] = u

\* Member u comes no later than member v when sorted descending by magnitude of
\* input balance, equal magnitudes in input order.
NoLaterThan(u, v) ==
  \/ Abs(given[u].netBalance) > Abs(given[v].netBalance)
  \/ Abs(given[u].netBalance) = Abs(given[v].netBalance) /\ PlaceOf(u) <= PlaceOf(v)

Debt(from, to, d) == [from |-> from, to |-> to, amount |-> Dollars(d)]

GivenNet(a, b, c, d) ==
  /\ given["A"].netBalance = Dollars(a)
  /\ given["B"].netBalance = Dollars(b)
  /\ given["C"].netBalance = Dollars(c)
  /\ given["D"].netBalance = Dollars(d)

\* C18: the debts follow the creditors in descending balance order and the
\* debtors in descending magnitude order, equal amounts in input order; A:+50,
\* B:+30, C:-40, D:-40 give exactly [C->A 40, D->A 10, D->B 30], and A:+60, B:-30,
\* C:-30 (D at zero) give exactly [B->A 30, C->A 30].
C18_DebtsFollowSortedMatching ==
  FirstCallReturned =>
    /\ \A k \in 1..Len(returned[1]) : \A l \in k..Len(returned[1]) :
         /\ NoLaterThan(returned[1][k].to, returned[1][l].to)
         /\ NoLaterThan(returned[1][k].from, returned[1][l].from)
    /\ GivenNet(50, 30, -40, -40) =>
         returned[1] = <<Debt("C", "A", 40), Debt("D", "A", 10), Debt("D", "B", 30)>>
    /\ GivenNet(60, -30, -30, 0) =>
         returned[1] = <<Debt("B", "A", 30), Debt("C", "A", 30)>>

\* C18 witness: the call on A:+50, B:+30, C:-40, D:-40 has returned.
C18_Witness == FirstCallReturned /\ GivenNet(50, 30, -40, -40)

\* ------------------------------ generateSimplifiedDebts on a group of five

\* Largest magnitude, in units, of a net balance in the group of five.
MaxBalFive == 12

\* The members of a group of five, in the order of their records.
FiveOrder == <<"A", "B", "C", "D", "E">>

FiveHead == SubSeq(FiveOrder, 1, Len(FiveOrder) - 1)

FiveLast == FiveOrder[Len(FiveOrder)]

\* The net balances calculateGroupBalance hands over when every expense is split
\* exactly: any values that sum to zero.
InitGroupOfFive ==
  /\ groups = <<>>
  /\ expenses = <<>>
  /\ nextId = 1
  /\ response = [op |-> "none", status |-> 0, group |-> "none", balances |-> <<>>,
                 debts |-> <<>>]
  /\ tripState = "none"
  /\ toSettle = <<>>
  /\ lastSettle = [req |-> <<>>, times |-> 0]
  /\ inflight = <<>>
  /\ \E nb \in [{FiveHead[k] : k \in 1..Len(FiveHead)} -> (-MaxBalFive)..MaxBalFive] :
       LET rest == 0 - SumSeq([k \in 1..Len(FiveHead) |-> nb[FiveHead[k]]])
       IN /\ rest \in (-MaxBalFive)..MaxBalFive
          /\ balances = [u \in {FiveOrder[k] : k \in 1..Len(FiveOrder)} |->
                           BalanceRecord(u, IF u = FiveLast THEN rest ELSE nb[u])]
  /\ given = balances
  /\ creditors = <<>>
  /\ debtors = <<>>
  /\ i = 1
  /\ j = 1
  /\ debts = <<>>
  /\ pc = "call"
  /\ returned = <<>>

\* Lines 631-679: one whole call on the group of five.
SimplifyGroupOfFive ==
  /\ pc = "call"
  /\ SetFrame(generateSimplifiedDebts(balances, FiveOrder))
  /\ returned' = Append(returned, generateSimplifiedDebts(balances, FiveOrder).debts)
  /\ pc' = "returned"
  /\ UNCHANGED given
  /\ UNCHANGED appVars

SpecGroupOfFive == InitGroupOfFive /\ [][SimplifyGroupOfFive]_vars

\* Whether the net balances nb can all be brought to zero with at most m payments,
\* each from a member below zero to a member above zero.  (A smallest settlement
\* can always be taken of this kind, each payment clearing its payer or its
\* receiver.)
RECURSIVE CanSettleWithin(_, _)
CanSettleWithin(nb, m) ==
  \/ \A u \in DOMAIN nb : nb[u] = 0
  \/ /\ m > 0
     /\ \E d \in DOMAIN nb : \E c \in DOMAIN nb :
          /\ nb[d] < 0
          /\ nb[c] > 0
          /\ CanSettleWithin([nb EXCEPT ![d] = nb[d] + Min(-nb[d], nb[c]),
                                        ![c] = nb[c] - Min(-nb[d], nb[c])], m - 1)

NetOf(bal) == [u \in DOMAIN bal |-> bal[u].netBalance]

\* C12: no set of pairwise payments that zeroes every member's balance has fewer
\* payments than the list generateSimplifiedDebts returns.
C12_NoSmallerSettlement ==
  (pc = "returned" /\ Len(returned) = 1 /\ returned[1] # <<>>) =>
    ~CanSettleWithin(NetOf(given), Len(returned[1]) - 1)

\* ------------------------- the balance computation on a stored collection

\* The Expense documents a collection may hold for a group of A and B: any
\* document the schema accepts, settled or not, with one split.
StoredRecords ==
  {[id |-> 0, amount |-> a, paidBy |-> p, group |-> "g1",
    splitBetween |-> <<[user |-> u, amount |-> a]>>,
    category |-> "Other", settled |-> st] :
     a \in Amounts, p \in {"A", "B"}, u \in {"A", "B"}, st \in BOOLEAN}

\* The server starts on a database that already holds a group and its expenses.
InitStoredRecords ==
  /\ groups = ("g1" :> [members |-> <<[user |-> "A", role |-> "admin"],
                                      [user |-> "B", role |-> "member"]>>,
                        createdBy |-> "A",
                        totalExpenses |-> 0,
                        isActive |-> TRUE])
  /\ \E n \in 1..MaxExpenses : \E es \in [1..n -> StoredRecords] :
       /\ expenses = [k \in 1..n |-> [es[k] EXCEPT !.id = k]]
       /\ nextId = n + 1
  /\ \A k \in 1..Len(expenses) : SchemaValid(expenses[k])
  /\ response = Reply("none", 0)
  /\ tripState = "none"
  /\ toSettle = <<>>
  /\ lastSettle = [req |-> <<>>, times |-> 0]
  /\ inflight = <<>>
  /\ balances = <<>>
  /\ given = <<>>
  /\ creditors = <<>>
  /\ debtors = <<>>
  /\ i = 1
  /\ j = 1
  /\ debts = <<>>
  /\ pc = "idle"
  /\ returned = <<>>

\* Balance requests against the stored collection.
SpecStoredRecords == InitStoredRecords /\ [][calculateGroupBalanceRequest]_vars

\* Every expense of group g, settled or not.
AllOf(g) == SelectSeq(expenses, LAMBDA e : e.group = g)

\* The totals of member u when every expense of g is counted.
TotalsOfAll(g, u) ==
  ComputeBalances(AllOf(g), InsertionOrder(groups[g].members, {}))[u]

\* C13: a settlement record (settled = true, one split naming the creditor) is
\* counted by the balance computation like any expense: the answered totalPaid
\* and totalOwes are those over all expenses of the group, settled ones included.
C13_SettledRecordsAreCounted ==
  BalanceAnswered =>
    \A k \in 1..Len(response.balances) :
      /\ response.balances[k].totalPaid =
           TotalsOfAll(response.group, response.balances[k].userId).totalPaid
      /\ response.balances[k].totalOwes =
           TotalsOfAll(response.group, response.balances[k].userId).totalOwes

\* ------------------------------------------- more claims on the application

\* The record the claim expects markSettlement to store.
IsSettlementOf(e, fromUserId, toUserId, amount) ==
  /\ e.paidBy = fromUserId
  /\ e.splitBetween = <<[user |-> toUserId, amount |-> amount]>>
  /\ e.settled = TRUE

\* C14: a markSettlement request made by the debtor or the creditor, a member of
\* the active group, with a positive amount, succeeds and stores exactly one new
\* expense: paidBy the debtor, one split naming the creditor with the amount,
\* settled = true.
C14_MarkSettlementStoresOneRecord ==
  [][\A u \in Accounts, g \in DOMAIN groups : \A d \in SettleChoices :
       ( /\ markSettlement(u, d.from, d.to, d.amount, g)
         /\ u \in {d.from, d.to}
         /\ FindsGroupOf(g, u)
         /\ d.amount > 0 )
       => /\ response'.status = 200
          /\ Len(expenses') = Len(expenses) + 1
          /\ IsSettlementOf(expenses'[Len(expenses')], d.from, d.to, d.amount)]_vars

InNoExpense(g, u) ==
  \A k \in 1..Len(AllOf(g)) :
    /\ AllOf(g)[k].paidBy # u
    /\ \A n \in 1..Len(AllOf(g)[k].splitBetween) : AllOf(g)[k].splitBetween[n].user # u

IsZeroRecord(b) == b.totalPaid = 0 /\ b.totalOwes = 0 /\ b.netBalance = 0

\* C16: every member of the group appears exactly once in the answered balances
\* and nobody else does; a member in no expense has totalPaid = totalOwes =
\* netBalance = 0; with no expenses at all every balance is zero and the debt list
\* is empty.
C16_EveryMemberOnceZeroWithoutExpense ==
  BalanceAnswered =>
    /\ \A u \in MemberUsers(response.group) :
         Cardinality({k \in 1..Len(response.balances) : response.balances[k].userId = u}) = 1
    /\ \A k \in 1..Len(response.balances) :
         /\ response.balances[k].userId \in MemberUsers(response.group)
         /\ InNoExpense(response.group, response.balances[k].userId)
              => IsZeroRecord(response.balances[k])
    /\ AllOf(response.group) = <<>> => response.debts = <<>>

\* C16 witness: a group that lists a member twice, an expense stored, and a
\* member in no expense answered with a zero record.
C16_Witness ==
  /\ BalanceAnswered
  /\ Len(groups[response.group].members) > Cardinality(MemberUsers(response.group))
  /\ AllOf(response.group) # <<>>
  /\ \E k \in 1..Len(response.balances) :
       InNoExpense(response.group, response.balances[k].userId)

\* C19: after any sequence of addExpense, updateExpense, deleteExpense and
\* markSettlement, every stored expense has amount > 0, a non-empty split list
\* with every share >= 0, and a split sum equal to its amount within 0.01.
C19_StoredExpensesAreWellFormed ==
  \A k \in 1..Len(expenses) :
    /\ expenses[k].amount > 0
    /\ expenses[k].splitBetween # <<>>
    /\ \A n \in 1..Len(expenses[k].splitBetween) : expenses[k].splitBetween[n].amount >= 0
    /\ Abs(SumSplits(expenses[k].splitBetween) - expenses[k].amount) <= Cent

\* C20: an expense whose splits sum to exactly 0.01 less than its amount (99.99
\* against 100.00), sent by a member with members in its splits, is rejected by
\* addExpense with a validation error and not stored.
C20_OneCentShortIsRejected ==
  [][\A u \in Accounts, g \in DOMAIN groups : \A a \in Amounts : \A sp \in SplitChoices(a) :
       ( /\ addExpense(u, g, a, sp)
         /\ FindsGroupOf(g, u)
         /\ sp # <<>>
         /\ \A k \in 1..Len(sp) : sp[k].user \in MemberUsers(g)
         /\ SumSplits(sp) = a - Cent )
       => /\ response'.status = 400
          /\ expenses' = expenses]_vars

\* ------------------------------------ addExpense on groups of every size

\* The member list of a stored group of n members, its creator first.
MembersOfSize(n) ==
  [k \in 1..n |-> [user |-> UserOrder[k], role |-> IF k = 1 THEN "admin" ELSE "member"]]

\* The server starts on a database that holds one group, of one to four members,
\* and no expense.
InitGroupSizes ==
  /\ \E n \in 1..Len(UserOrder) :
       groups = ("g1" :> [members |-> MembersOfSize(n),
                          createdBy |-> UserOrder[1],
                          totalExpenses |-> 0,
                          isActive |-> TRUE])
  /\ expenses = <<>>
  /\ nextId = 1
  /\ response = Reply("none", 0)
  /\ tripState = "none"
  /\ toSettle = <<>>
  /\ lastSettle = [req |-> <<>>, times |-> 0]
  /\ inflight = <<>>
  /\ balances = <<>>
  /\ given = <<>>
  /\ creditors = <<>>
  /\ debtors = <<>>
  /\ i = 1
  /\ j = 1
  /\ debts = <<>>
  /\ pc = "idle"
  /\ returned = <<>>

SpecGroupSizes == InitGroupSizes /\ [][addExpenseRequest]_vars

\* C21: addExpense called without splitBetween by a member, with a positive
\* amount, is accepted whatever the group size: the expense is stored with one
\* equal share (amount / member count, rounded to 2 decimals) for every member.
\* (Checked where the shares are not off the amount by exactly 0.01, the one case
\* in which the binary doubles decide the split check.)
C21_EqualSplitIsAccepted ==
  [][\A u \in Accounts, g \in DOMAIN groups : \A a \in Amounts :
       ( /\ addExpense(u, g, a, <<>>)
         /\ FindsGroupOf(g, u)
         /\ Abs(Len(groups[g].members) * EqualShare(a, Len(groups[g].members)) - a) # Cent )
       => /\ response'.status = 201
          /\ Len(expenses') = Len(expenses) + 1
          /\ expenses'[Len(expenses')].splitBetween =
               [k \in 1..Len(groups[g].members) |->
                  [user |-> groups[g].members[k].user,
                   amount |-> EqualShare(a, Len(groups[g].members))]]]_vars

\* The sum of the amounts of the expenses stored for group g.
StoredAmount(g) == SumSeq([k \in 1..Len(AllOf(g)) |-> AllOf(g)[k].amount])

\* C22: after any sequence of addExpense, updateExpense, deleteExpense and
\* markSettlement, a group's totalExpenses is the sum of the amounts of the
\* expenses stored for it.
C22_TotalExpensesIsStoredSum ==
  \A g \in DOMAIN groups : groups[g].totalExpenses = StoredAmount(g)

\* ------------------------------------------- deleteExpense, await by await

\* The number of requests in flight at once.
MaxRequests == 2

\* A request as it arrives: nothing read yet, no answer yet.
Arrived(op, userId, target) ==
  [op |-> op, user |-> userId, target |-> target, pc |-> "find", found |-> <<>>,
   status |-> 0]

\* The server runs on a database holding a group of A and B and its expenses,
\* totalExpenses being what addExpense has added up; delete requests arrive
\* together, each by A or B for one of the expenses.
InitConcurrentDelete ==
  /\ \E n \in 1..MaxExpenses : \E es \in [1..n -> StoredRecords] :
       /\ expenses = [k \in 1..n |-> [es[k] EXCEPT !.id = k]]
       /\ nextId = n + 1
       /\ groups = ("g1" :> [members |-> <<[user |-> "A", role |-> "admin"],
                                           [user |-> "B", role |-> "member"]>>,
                             createdBy |-> "A",
                             totalExpenses |-> SumSeq([k \in 1..n |-> es[k].amount]),
                             isActive |-> TRUE])
  /\ \A k \in 1..Len(expenses) : SchemaValid(expenses[k]) /\ ~expenses[k].settled
  /\ \E rs \in [1..MaxRequests -> {"A", "B"} \X (1..MaxExpenses)] :
       inflight = [r \in 1..MaxRequests |-> Arrived("deleteExpense", rs[r][1], rs[r][2])]
  /\ response = Reply("none", 0)
  /\ tripState = "none"
  /\ toSettle = <<>>
  /\ lastSettle = [req |-> <<>>, times |-> 0]
  /\ balances = <<>>
  /\ given = <<>>
  /\ creditors = <<>>
  /\ debtors = <<>>
  /\ i = 1
  /\ j = 1
  /\ debts = <<>>
  /\ pc = "idle"
  /\ returned = <<>>

\* What a step of a running handler leaves alone.
StepFrame ==
  /\ NoTrip
  /\ NoSettle
  /\ UNCHANGED <<nextId, simplifierVars>>

\* The handler answers request r.
Answer(r, op, status) ==
  /\ inflight' = [inflight EXCEPT ![r].pc = "done", ![r].status = status]
  /\ response' = Reply(op, status)

\* await Expense.findById, then the 404 and 403 answers
deleteExpenseFind ==
  \E r \in DOMAIN inflight :
    /\ inflight[r].op = "deleteExpense"
    /\ inflight[r].pc = "find"
    /\ StepFrame
    /\ UNCHANGED <<groups, expenses>>
    /\ LET k == PlaceOfExpense(inflight[r].target)
       IN IF k = 0
          THEN Answer(r, "deleteExpense", 404)
          ELSE IF expenses[k].paidBy # inflight[r].user
          THEN Answer(r, "deleteExpense", 403)
          ELSE /\ inflight' = [inflight EXCEPT ![r].pc = "decrement",
                                               ![r].found = <<expenses[k]>>]
               /\ UNCHANGED response

\* await Group.findByIdAndUpdate with $inc, on the document read before
deleteExpenseDecrement ==
  \E r \in DOMAIN inflight :
    /\ inflight[r].op = "deleteExpense"
    /\ inflight[r].pc = "decrement"
    /\ StepFrame
    /\ LET expense == inflight[r].found[1]
       IN groups' = IF expense.group \in DOMAIN groups
                    THEN [groups EXCEPT ![expense.group].totalExpenses =
                            @ - expense.amount]
                    ELSE groups
    /\ inflight' = [inflight EXCEPT ![r].pc = "delete"]
    /\ UNCHANGED <<expenses, response>>

\* await Expense.findByIdAndDelete, then the answer
deleteExpenseRemove ==
  \E r \in DOMAIN inflight :
    /\ inflight[r].op = "deleteExpense"
    /\ inflight[r].pc = "delete"
    /\ StepFrame
    /\ expenses' = SelectSeq(expenses, LAMBDA e : e.id # inflight[r].target)
    /\ Answer(r, "deleteExpense", 200)
    /\ UNCHANGED groups

NextConcurrentDelete ==
  \/ deleteExpenseFind
  \/ deleteExpenseDecrement
  \/ deleteExpenseRemove

SpecConcurrentDelete == InitConcurrentDelete /\ [][NextConcurrentDelete]_vars

\* Every request in flight has been answered.
AllAnswered == \A r \in DOMAIN inflight : inflight[r].pc = "done"

\* C23: two concurrent deleteExpense requests for the same expense by its payer
\* decrease the group's totalExpenses by the expense amount exactly once: when
\* both are answered and one of them deleted the expense, totalExpenses is again
\* the sum of the amounts of the expenses that remain.
C23_ConcurrentDeletesSubtractOnce ==
  (/\ AllAnswered
   /\ \A r \in DOMAIN inflight :
        /\ inflight[r].target = inflight[1].target
        /\ inflight[r].user = inflight[1].user
   /\ \E r \in DOMAIN inflight : inflight[r].status = 200)
  => \A g \in DOMAIN groups : groups[g].totalExpenses = StoredAmount(g)

\* ------------------------------------------------- joining and leaving

\* A response of leaveGroup: the operation, the HTTP status, the message.
LeaveReply(status, message) == Reply("leaveGroup", status) @@ [message |-> message]

\* POST /api/groups/:groupId/join
joinGroup(userId, g) ==
  /\ NoTrip
  /\ NoSettle
  /\ UNCHANGED <<expenses, nextId>>
  /\ IF g \notin DOMAIN groups \/ ~groups[g].isActive
     THEN /\ response' = Reply("joinGroup", 404)
          /\ UNCHANGED groups
     ELSE IF userId \in MemberUsers(g)
     THEN /\ response' = Reply("joinGroup", 400)
          /\ UNCHANGED groups
     ELSE /\ groups' = [groups EXCEPT ![g].members =
                          Append(@, [user |-> userId, role |-> "member"])]
          /\ response' = Reply("joinGroup", 200)

\* Expense.find({group: g, $or: [{paidBy: u}, {'splitBetween.user': u}],
\* settled: false})
UnsettledWith(g, u) ==
  SelectSeq(expenses,
            LAMBDA e : /\ e.group = g
                       /\ \/ e.paidBy = u
                          \/ \E k \in 1..Len(e.splitBetween) : e.splitBetween[k].user = u
                       /\ e.settled = FALSE)

\* leaveGroup without the query for unsettled expenses.
leaveGroupUnchecked(userId, g) ==
  /\ NoTrip
  /\ NoSettle
  /\ UNCHANGED <<expenses, nextId>>
  /\ IF g \notin DOMAIN groups
     THEN /\ response' = LeaveReply(404, "Group not found")
          /\ UNCHANGED groups
     ELSE IF groups[g].createdBy = userId
     THEN /\ response' = LeaveReply(400, "Group creator cannot leave")
          /\ UNCHANGED groups
     ELSE /\ groups' = [groups EXCEPT ![g].members =
                          SelectSeq(@, LAMBDA m : m.user # userId)]
          /\ response' = LeaveReply(200, "Successfully left the group")

\* POST /api/groups/:groupId/leave
leaveGroup(userId, g) ==
  /\ NoTrip
  /\ NoSettle
  /\ UNCHANGED <<expenses, nextId>>
  /\ IF g \notin DOMAIN groups
     THEN /\ response' = LeaveReply(404, "Group not found")
          /\ UNCHANGED groups
     ELSE IF groups[g].createdBy = userId
     THEN /\ response' = LeaveReply(400, "Group creator cannot leave")
          /\ UNCHANGED groups
     ELSE IF Len(UnsettledWith(g, userId)) > 0
     THEN /\ response' = LeaveReply(400, "Cannot leave group with unsettled expenses")
          /\ UNCHANGED groups
     ELSE /\ groups' = [groups EXCEPT ![g].members =
                          SelectSeq(@, LAMBDA m : m.user # userId)]
          /\ response' = LeaveReply(200, "Successfully left the group")

\* The createGroup requests whose members carry a role.
CreateChoicesWithRoles ==
  CreateChoices
  \cup {<<"A", <<[user |-> "B", role |-> "admin"]>>>>,
        <<"B", <<[user |-> "A", role |-> "admin"], MemberData("C")>>>>}

createGroupWithRolesRequest ==
  /\ \E c \in CreateChoicesWithRoles : createGroup(c[1], c[2])
  /\ UNCHANGED <<simplifierVars, inflight>>

joinGroupRequest ==
  /\ \E u \in Accounts, g \in GroupIds : joinGroup(u, g)
  /\ UNCHANGED <<simplifierVars, inflight>>

leaveGroupRequest ==
  /\ \E u \in Accounts, g \in GroupIds : leaveGroup(u, g)
  /\ UNCHANGED <<simplifierVars, inflight>>

\* The handlers that change a group's member list.
NextMembership ==
  \/ createGroupWithRolesRequest
  \/ joinGroupRequest
  \/ removeMemberRequest
  \/ leaveGroupRequest

SpecMembership == Init /\ [][NextMembership]_vars

\* leaveGroup with the expense handlers that decide who may leave.
NextLeaving ==
  \/ createGroupRequest
  \/ addExpenseRequest
  \/ markSettlementRequest
  \/ leaveGroupRequest

SpecLeaving == Init /\ [][NextLeaving]_vars

\* C24: leaveGroup is refused, and the member list left unchanged, when the
\* caller is the group's creator or when the caller is payer or split
\* participant of at least one expense of the group with settled = false.
C24_CreatorAndUnsettledCannotLeave ==
  [][\A u \in Accounts, g \in DOMAIN groups :
       (/\ leaveGroup(u, g)
        /\ \/ groups[g].createdBy = u
           \/ \E k \in 1..Len(expenses) :
                /\ expenses[k].group = g
                /\ expenses[k].settled = FALSE
                /\ \/ expenses[k].paidBy = u
                   \/ \E l \in 1..Len(expenses[k].splitBetween) :
                        expenses[k].splitBetween[l].user = u)
       => /\ response'.status = 400
          /\ groups'[g].members = groups[g].members]_vars

\* A member who is not the creator has just been refused for an unsettled expense.
C24_Witness ==
  /\ response.op = "leaveGroup"
  /\ response.status = 400
  /\ response.message = "Cannot leave group with unsettled expenses"
  /\ \E g \in DOMAIN groups : Len(groups[g].members) > 1

\* The net balance of member u in group g, as calculateGroupBalance computes it.
NetInGroup(g, u) ==
  ComputeBalances(UnsettledOf(g), InsertionOrder(groups[g].members, {}))[u].netBalance

\* C25: a non-creator member who took part in an expense can leave the group
\* once their debts are settled: a member who owes, and whose last request
\* marked a settlement of all they owe as paid, is let go by leaveGroup.
C25_SettledMemberCanLeave ==
  [][\A u \in Accounts, g \in DOMAIN groups :
       (/\ leaveGroup(u, g)
        /\ u \in MemberUsers(g)
        /\ groups[g].createdBy # u
        /\ NetInGroup(g, u) < 0
        /\ lastSettle.req # <<>>
        /\ lastSettle.req[1] = u
        /\ lastSettle.req[3] = -NetInGroup(g, u)
        /\ lastSettle.req[4] = g)
       => /\ response'.status = 200
          /\ u \notin {groups'[g].members[k].user : k \in 1..Len(groups'[g].members)}]_vars

\* Member list ms has an entry of user u with role admin.
IsAdminIn(ms, u) == \E k \in 1..Len(ms) : ms[k].user = u /\ ms[k].role = "admin"

\* C26: after any sequence of createGroup, joinGroup, removeMember and
\* leaveGroup, the creator of a group is in the group's member list with role
\* admin; removeMember succeeds only for a caller with role admin and never for
\* the creator as target.
C26_CreatorStaysAdmin ==
  [][/\ \A g \in DOMAIN groups' : IsAdminIn(groups'[g].members, groups'[g].createdBy)
     /\ \A u \in Accounts, g \in DOMAIN groups, m \in Accounts :
          (removeMember(u, g, m) /\ response'.status = 200)
          => /\ IsAdminIn(groups[g].members, u)
             /\ m # groups[g].createdBy]_vars

\* A removal has succeeded in a group that has an admin besides its creator.
C26_Witness ==
  /\ response.op = "removeMember"
  /\ response.status = 200
  /\ \E g \in DOMAIN groups : \E k \in 1..Len(groups[g].members) :
       /\ groups[g].members[k].role = "admin"
       /\ groups[g].members[k].user # groups[g].createdBy

\* ------------------------------------------------ joinGroup, await by await

\* Join requests by any accounts arrive together, before or after the group is
\* created.
InitConcurrentJoin ==
  /\ groups = <<>>
  /\ expenses = <<>>
  /\ nextId = 1
  /\ response = Reply("none", 0)
  /\ tripState = "none"
  /\ toSettle = <<>>
  /\ lastSettle = [req |-> <<>>, times |-> 0]
  /\ \E rs \in [1..MaxRequests -> Accounts \X GroupIds] :
       inflight = [r \in 1..MaxRequests |-> Arrived("joinGroup", rs[r][1], rs[r][2])]
  /\ balances = <<>>
  /\ given = <<>>
  /\ creditors = <<>>
  /\ debtors = <<>>
  /\ i = 1
  /\ j = 1
  /\ debts = <<>>
  /\ pc = "idle"
  /\ returned = <<>>

\* await Group.findOne, then the 404 and 400 answers
joinGroupFind ==
  \E r \in DOMAIN inflight :
    /\ inflight[r].op = "joinGroup"
    /\ inflight[r].pc = "find"
    /\ StepFrame
    /\ UNCHANGED <<groups, expenses>>
    /\ LET g == inflight[r].target
       IN IF g \notin DOMAIN groups \/ ~groups[g].isActive
          THEN Answer(r, "joinGroup", 404)
          ELSE IF inflight[r].user \in MemberUsers(g)
          THEN Answer(r, "joinGroup", 400)
          ELSE /\ inflight' = [inflight EXCEPT ![r].pc = "save",
                                               ![r].found = <<groups[g]>>]
               /\ UNCHANGED response

\* group.members.push and await group.save(): the pushed entry is sent as a
\* $push on the stored document; then the answer
joinGroupSave ==
  \E r \in DOMAIN inflight :
    /\ inflight[r].op = "joinGroup"
    /\ inflight[r].pc = "save"
    /\ StepFrame
    /\ groups' = [groups EXCEPT ![inflight[r].target].members =
                    Append(@, [user |-> inflight[r].user, role |-> "member"])]
    /\ Answer(r, "joinGroup", 200)
    /\ UNCHANGED expenses

NextConcurrentJoin ==
  \/ createGroupRequest
  \/ joinGroupFind
  \/ joinGroupSave

SpecConcurrentJoin == InitConcurrentJoin /\ [][NextConcurrentJoin]_vars

\* C27: no user appears more than once in a group's member list, after any
\* sequence of createGroup (with additional members) and joinGroup requests,
\* two concurrent joinGroup requests by the same user included.
C27_NoMemberTwice ==
  \A g \in DOMAIN groups : \A k, l \in 1..Len(groups[g].members) :
    groups[g].members[k].user = groups[g].members[l].user => k = l

\* Caller u of a settlement from f to t in group g is one of the two and a
\* member of the group, which is active.
MayMark(u, f, t, g) ==
  /\ u = f \/ u = t
  /\ g \in DOMAIN groups
  /\ groups[g].isActive
  /\ \E k \in 1..Len(groups[g].members) : groups[g].members[k].user = u

DebtsFrom(u, ds) == Cardinality({k \in 1..Len(ds) : ds[k].from = u})

DebtsTo(u, ds) == Cardinality({k \in 1..Len(ds) : ds[k].to = u})

\* C29 as stated: in the output of generateSimplifiedDebts the amounts of all
\* debts from one debtor sum to at most that debtor's |netBalance|, and the
\* amounts of all debts to one creditor sum to at most that creditor's
\* netBalance (the balances as they were given).
C29_NoOverSettlement ==
  FirstCallReturned =>
    \A u \in Users :
      /\ DebtsFrom(u, returned[1]) > 0 => PaidBy(u, returned[1]) <= -given[u].netBalance
      /\ DebtsTo(u, returned[1]) > 0 => ReceivedBy(u, returned[1]) <= given[u].netBalance

\* C29 amended: the amounts of all debts from one debtor exceed that debtor's
\* |netBalance| by at most 0.005 for each of these debts, and likewise the
\* amounts of all debts to one creditor that creditor's given netBalance; for
\* balances of whole cents they do not exceed it at all.
C29_OverSettlementWithinRounding ==
  FirstCallReturned =>
    \A u \in Users :
      /\ DebtsFrom(u, returned[1]) > 0 =>
           2 * (PaidBy(u, returned[1]) + given[u].netBalance)
             <= Cent * DebtsFrom(u, returned[1])
      /\ DebtsTo(u, returned[1]) > 0 =>
           2 * (ReceivedBy(u, returned[1]) - given[u].netBalance)
             <= Cent * DebtsTo(u, returned[1])
      /\ (\A v \in Users : given[v].netBalance % Cent = 0) =>
           /\ DebtsFrom(u, returned[1]) > 0 =>
                PaidBy(u, returned[1]) <= -given[u].netBalance
           /\ DebtsTo(u, returned[1]) > 0 =>
                ReceivedBy(u, returned[1]) <= given[u].netBalance

\* C29 witness: a debtor with two debts whose amounts, rounded up, sum to more
\* than the debtor owed.
C29_Witness ==
  /\ FirstCallReturned
  /\ \E u \in Users :
       /\ DebtsFrom(u, returned[1]) = 2
       /\ PaidBy(u, returned[1]) > -given[u].netBalance

\* -------------------------------------------------- getOverallSettlements

\* The groups in the order Group.find returns them.
GroupOrder == <<"g1", "g2">>

\* Group.find({'members.user': userId, isActive: true})
GroupsOf(userId) == SelectSeq(GroupOrder, LAMBDA g : FindsGroupOf(g, userId))

\* Lines 536-552: one balance record added to the userBalances object (keys in
\* insertion order, records by key).
AddBalance(ub, b) ==
  LET started == IF b.userId \in DOMAIN ub.recs
                 THEN ub
                 ELSE [keys |-> Append(ub.keys, b.userId),
                       recs |-> ub.recs @@ (b.userId :> [userId |-> b.userId,
                                                         totalPaid |-> 0,
                                                         totalOwes |-> 0,
                                                         netBalance |-> 0])]
  IN [started EXCEPT !.recs[b.userId] =
        [userId     |-> @.userId,
         totalPaid  |-> @.totalPaid + b.totalPaid,
         totalOwes  |-> @.totalOwes + b.totalOwes,
         netBalance |-> @.netBalance + b.netBalance]]

RECURSIVE AddBalancesOf(_, _)
AddBalancesOf(ub, bs) ==
  IF bs = <<>> THEN ub ELSE AddBalancesOf(AddBalance(ub, Head(bs)), Tail(bs))

\* Lines 529-533: the debts of a group, each with the group's id.
TaggedDebts(ds, g) ==
  [k \in 1..Len(ds) |-> [from |-> ds[k].from, to |-> ds[k].to,
                         amount |-> ds[k].amount, groupId |-> g]]

\* Lines 483-553: the loop over the caller's groups. The records aggregated are
\* those generateSimplifiedDebts was called on, as the call left them.
RECURSIVE ProcessGroups(_, _)
ProcessGroups(acc, gs) ==
  IF gs = <<>> THEN acc
  ELSE LET g     == Head(gs)
           order == InsertionOrder(groups[g].members, {})
           bal   == ComputeBalances(UnsettledOf(g), order)
           done  == generateSimplifiedDebts(bal, order)
       IN ProcessGroups(
            [allDebts     |-> acc.allDebts \o TaggedDebts(done.debts, g),
             userBalances |-> AddBalancesOf(acc.userBalances,
                                [k \in 1..Len(order) |-> done.balances[order[k]]])],
            Tail(gs))

\* GET /api/expenses/settlements
getOverallSettlements(userId) ==
  /\ UNCHANGED <<groups, expenses, nextId>>
  /\ NoTrip
  /\ NoSettle
  /\ LET all == ProcessGroups([allDebts |-> <<>>,
                               userBalances |-> [keys |-> <<>>, recs |-> <<>>]],
                              GroupsOf(userId))
     IN response' = [op |-> "getOverallSettlements", status |-> 200,
                     group |-> "none",
                     balances |-> [k \in 1..Len(all.userBalances.keys) |->
                                     all.userBalances.recs[all.userBalances.keys[k]]],
                     debts |-> all.allDebts]

getOverallSettlementsRequest ==
  /\ \E u \in Accounts : getOverallSettlements(u)
  /\ UNCHANGED <<simplifierVars, inflight>>

\* The unsettled Expense documents the two groups may hold.
OverallRecords ==
  {[id |-> 0, amount |-> a, paidBy |-> p, group |-> g,
    splitBetween |-> <<[user |-> u, amount |-> a]>>,
    category |-> "Other", settled |-> FALSE] :
     a \in Amounts, p \in {"A", "B"}, u \in {"A", "B"}, g \in {"g1", "g2"}}

\* The server starts on a database that holds two groups and their expenses.
InitTwoGroups ==
  /\ \E n \in 1..MaxExpenses : \E es \in [1..n -> OverallRecords] :
       /\ expenses = [k \in 1..n |-> [es[k] EXCEPT !.id = k]]
       /\ nextId = n + 1
       /\ groups =
            ("g1" :> [members |-> <<[user |-> "A", role |-> "admin"],
                                    [user |-> "B", role |-> "member"]>>,
                      createdBy |-> "A",
                      totalExpenses |->
                        SumSeq([k \in 1..n |-> IF es[k].group = "g1"
                                               THEN es[k].amount ELSE 0]),
                      isActive |-> TRUE])
            @@
            ("g2" :> [members |-> <<[user |-> "B", role |-> "admin"],
                                    [user |-> "A", role |-> "member"],
                                    [user |-> "C", role |-> "member"]>>,
                      createdBy |-> "B",
                      totalExpenses |->
                        SumSeq([k \in 1..n |-> IF es[k].group = "g2"
                                               THEN es[k].amount ELSE 0]),
                      isActive |-> TRUE])
  /\ response = Reply("none", 0)
  /\ tripState = "none"
  /\ toSettle = <<>>
  /\ lastSettle = [req |-> <<>>, times |-> 0]
  /\ inflight = <<>>
  /\ balances = <<>>
  /\ given = <<>>
  /\ creditors = <<>>
  /\ debtors = <<>>
  /\ i = 1
  /\ j = 1
  /\ debts = <<>>
  /\ pc = "idle"
  /\ returned = <<>>

SpecOverall == InitTwoGroups /\ [][getOverallSettlementsRequest]_vars

\* The debts of the caller's groups as calculateGroupBalance would answer them
\* group by group, each with its group's id.
RECURSIVE PerGroupDebts(_)
PerGroupDebts(gs) ==
  IF gs = <<>> THEN <<>>
  ELSE LET order == InsertionOrder(groups[Head(gs)].members, {})
       IN TaggedDebts(generateSimplifiedDebts(
                        ComputeBalances(UnsettledOf(Head(gs)), order), order).debts,
                      Head(gs))
          \o PerGroupDebts(Tail(gs))

\* C30: in the response of getOverallSettlements, each user's aggregated
\* netBalance equals that user's aggregated totalPaid minus aggregated totalOwes
\* over all groups of the caller, and the debts are the per-group simplified
\* debts, each tagged with its group.
C30_OverallNetIsPaidMinusOwes ==
  [][\A u \in Accounts :
       getOverallSettlements(u) =>
         /\ \A k \in 1..Len(response'.balances) :
              response'.balances[k].netBalance =
                response'.balances[k].totalPaid - response'.balances[k].totalOwes
         /\ response'.debts = PerGroupDebts(GroupsOf(u))]_vars

====
